---- MODULE Spec2Model ----
(***************************************************************************)
(* killer: terminate processes named on the command line, by PID or by     *)
(* (partial) process name.  Model of src/src/killer.ts (the CLI driver)    *)
(* and src/bin/killer.ts (the hard-coded demo).                            *)
(*                                                                         *)
(* Strings are sequences of one-character strings, so that the regular     *)
(* expressions, trim, split, parseInt and Number are computed character    *)
(* by character as the JavaScript runtime computes them.                   *)
(***************************************************************************)
EXTENDS Integers, Sequences, FiniteSets, TLC

\* ------------------------------------------------------------------ bounds

\* longest argument list the driver is run with
MaxArgs == 2
\* longest raw listing output (in characters) fed to the resolver's parser
MaxOutLen == 3
\* most data rows of a tasklist-style CSV listing fed to the resolver's parser
MaxRows == 2

\* ------------------------------------------------------- JavaScript strings

Digits == {"0", "1", "2", "3", "4", "5", "6", "7", "8", "9"}

DigitVal(c) ==
    CASE c = "0" -> 0 [] c = "1" -> 1 [] c = "2" -> 2 [] c = "3" -> 3
      [] c = "4" -> 4 [] c = "5" -> 5 [] c = "6" -> 6 [] c = "7" -> 7
      [] c = "8" -> 8 [] c = "9" -> 9

\* white space as String.prototype.trim and parseInt strip it
WhiteSpace == {" ", "\n", "\r", "\t"}

\* s without its first n characters
Drop(s, n) == SubSeq(s, n + 1, Len(s))

RECURSIVE TrimStart(_)
TrimStart(s) ==
    IF s # <<>> /\ Head(s) \in WhiteSpace THEN TrimStart(Tail(s)) ELSE s

RECURSIVE TrimEnd(_)
TrimEnd(s) ==
    IF s # <<>> /\ s[Len(s)] \in WhiteSpace
    THEN TrimEnd(SubSeq(s, 1, Len(s) - 1))
    ELSE s

\* stdout.trim()
Trim(s) == TrimEnd(TrimStart(s))

\* index of the first occurrence of character c in s at or after position k,
\* Len(s) + 1 when there is none
RECURSIVE IndexFrom(_, _, _)
IndexFrom(s, c, k) ==
    IF k > Len(s) THEN Len(s) + 1
    ELSE IF s[k] = c THEN k
    ELSE IndexFrom(s, c, k + 1)

\* s.split("\n"): always at least one piece, the empty string splits to <<"">>
RECURSIVE SplitLines(_)
SplitLines(s) ==
    LET n == IndexFrom(s, "\n", 1)
    IN  IF n > Len(s) THEN << s >>
        ELSE << SubSeq(s, 1, n - 1) >> \o SplitLines(Drop(s, n))

\* the longest prefix of s made of decimal digits
RECURSIVE DigitPrefix(_)
DigitPrefix(s) ==
    IF s # <<>> /\ Head(s) \in Digits
    THEN << Head(s) >> \o DigitPrefix(Tail(s))
    ELSE <<>>

\* the value of a string of decimal digits (0 for the empty string)
RECURSIVE DecimalValue(_)
DecimalValue(s) ==
    IF s = <<>> THEN 0
    ELSE 10 * DecimalValue(SubSeq(s, 1, Len(s) - 1)) + DigitVal(s[Len(s)])

\* NaN, the result of parseInt on a string with no leading integer
NaN == [nan |-> TRUE, val |-> 0]

\* parseInt(s, 10): skip leading white space, take an optional sign, then the
\* longest run of digits; NaN when that run is empty.  "-0" parses to -0,
\* which prints as 0.
ParseInt(s) ==
    LET t    == TrimStart(s)
        neg  == t # <<>> /\ Head(t) = "-"
        body == IF t # <<>> /\ Head(t) \in {"-", "+"} THEN Tail(t) ELSE t
        d    == DigitPrefix(body)
    IN  IF d = <<>> THEN NaN
        ELSE [nan |-> FALSE,
              val |-> IF neg THEN 0 - DecimalValue(d) ELSE DecimalValue(d)]

\* variant: the test /^[1-9]\d*$/, which refuses a leading zero
IsNumericTokenNoLeadingZero(arg) ==
    /\ Len(arg) >= 1
    /\ arg[1] \in Digits \ {"0"}
    /\ \A k \in 1..Len(arg) : arg[k] \in Digits

\* /^\d+$/.test(arg)
IsNumericToken(arg) ==
    /\ Len(arg) >= 1
    /\ \A k \in 1..Len(arg) : arg[k] \in Digits

\* Number(arg) for an arg that passed the digits-only test
NumberOf(arg) == DecimalValue(arg)

\* line.match(/"([^"]+)","([^"]+)","([^"]+)"/) tried at start position k:
\* each group is the maximal run of non-quote characters, which the regex
\* needs non-empty and followed by the literal separator.  The result is the
\* second group, or <<>> when the regex does not match at k (a matched group
\* is never empty).
CsvGroup2At(line, k) ==
    LET q1 == IndexFrom(line, "\"", k + 1)
        q2 == IndexFrom(line, "\"", q1 + 3)
        q3 == IndexFrom(line, "\"", q2 + 3)
    IN  IF /\ k <= Len(line) /\ line[k] = "\""
           /\ q1 > k + 1 /\ q1 + 2 <= Len(line)
           /\ line[q1 + 1] = "," /\ line[q1 + 2] = "\""
           /\ q2 > q1 + 3 /\ q2 + 2 <= Len(line)
           /\ line[q2 + 1] = "," /\ line[q2 + 2] = "\""
           /\ q3 > q2 + 3 /\ q3 <= Len(line)
        THEN SubSeq(line, q1 + 3, q2 - 1)
        ELSE <<>>

\* the leftmost match of the regex in line: match[2], or <<>> for no match
RECURSIVE CsvGroup2From(_, _)
CsvGroup2From(line, k) ==
    IF k > Len(line) THEN <<>>
    ELSE IF CsvGroup2At(line, k) # <<>> THEN CsvGroup2At(line, k)
    ELSE CsvGroup2From(line, k + 1)

CsvGroup2(line) == CsvGroup2From(line, 1)

\* ------------------------------------------------------------- the resolver

\* os.platform(): the code only asks whether it is "win32"
Platforms == {"win32", "linux"}

\* The exit code of a failed command.  -1 stands for a failure whose
\* error.code is not a number (the child was killed by a signal).
ErrorCodes == {1, 2, 127, -1}

\* What exec hands to its callback: an error with its code, or the output
ExecFailure(code) == [failed |-> TRUE, code |-> code, stdout |-> <<>>]
ExecSuccess(out) == [failed |-> FALSE, code |-> 0, stdout |-> out]

\* How the promise of findPidByProcessName settles
Resolved(ps) == [settled |-> "resolve", pids |-> ps, error |-> 0]
Rejected(code) == [settled |-> "reject", pids |-> <<>>, error |-> code]
Unsettled == [settled |-> "pending", pids |-> <<>>, error |-> 0]

\* pids.push(pid) for every line that parses to a number, in order
RECURSIVE ParsePgrepLines(_)
ParsePgrepLines(lines) ==
    IF lines = <<>> THEN <<>>
    ELSE LET pid == ParseInt(Head(lines))
         IN  (IF pid.nan THEN <<>> ELSE << pid.val >>)
                \o ParsePgrepLines(Tail(lines))

\* the POSIX branch: one PID per line of pgrep's output
ParsePgrep(stdout) == ParsePgrepLines(SplitLines(Trim(stdout)))

\* pids.push(pid) for every CSV row whose second field parses to a number
RECURSIVE ParseTasklistLines(_)
ParseTasklistLines(lines) ==
    IF lines = <<>> THEN <<>>
    ELSE LET m   == CsvGroup2(Head(lines))
             pid == ParseInt(m)
         IN  (IF m # <<>> /\ ~pid.nan THEN << pid.val >> ELSE <<>>)
                \o ParseTasklistLines(Tail(lines))

\* the Windows branch: tasklist's CSV output without its header row
ParseTasklist(stdout) == ParseTasklistLines(Tail(SplitLines(Trim(stdout))))

\* variant: exit code 1 means "no match" on every platform
FindCallbackCode1Everywhere(plat, r) ==
    IF r.failed
    THEN IF r.code = 1 THEN Resolved(<<>>) ELSE Rejected(r.code)
    ELSE Resolved(IF plat = "win32" THEN ParseTasklist(r.stdout)
                  ELSE ParsePgrep(r.stdout))

\* The callback of exec in findPidByProcessName
FindCallback(plat, r) ==
    IF r.failed
    THEN IF plat # "win32" /\ r.code = 1 THEN Resolved(<<>>)
         ELSE Rejected(r.code)
    ELSE Resolved(IF plat = "win32" THEN ParseTasklist(r.stdout)
                  ELSE ParsePgrep(r.stdout))

\* The callback of exec in killProcess: TRUE when the promise resolves
KillCallback(r) == ~r.failed

\* ------------------------------------------------- listing outputs (inputs)

\* all strings of at most n characters over alphabet
StringsUpTo(alphabet, n) == UNION {[1..k -> alphabet] : k \in 0..n}

RECURSIVE Join(_, _)
Join(parts, sep) ==
    IF parts = <<>> THEN <<>>
    ELSE IF Len(parts) = 1 THEN Head(parts)
    ELSE Head(parts) \o sep \o Join(Tail(parts), sep)

Quoted(f) == << "\"" >> \o f \o << "\"" >>

\* a CSV row of quoted fields
CsvRow(fields) ==
    Join([k \in 1..Len(fields) |-> Quoted(fields[k])], << "," >>)

\* characters of raw listing output: digits, a letter, a sign, white space
OutChars == {"0", "7", "x", "-", " ", "\n"}

RawOutputs == StringsUpTo(OutChars, MaxOutLen)

\* rows of a tasklist-style listing: the header, data rows whose PID field
\* is a number, zero, or not a number, a row of two fields only, and the
\* line tasklist prints when nothing matches
CsvHeader == CsvRow(<< <<"N">>, <<"P">>, <<"S">> >>)
CsvData(pidField) == CsvRow(<< <<"a">>, pidField, <<"c">>, <<"1">> >>)
CsvLines ==
    { CsvHeader, CsvData(<<"7">>), CsvData(<<"4", "2">>), CsvData(<<"0">>),
      CsvData(<<"x">>), CsvRow(<< <<"a">>, <<"7">> >>), <<"I", ":">> }

\* the lines joined as tasklist prints them, each ended by CR LF
CsvOutput(lines) ==
    IF lines = <<>> THEN <<>>
    ELSE Join(lines, << "\r", "\n" >>) \o << "\r", "\n" >>

CsvOutputs ==
    { CsvOutput(ls) : ls \in UNION {[1..k -> CsvLines] : k \in 0..(MaxRows + 1)} }

\* every outcome of the listing command the resolver is checked on
ExecInputs ==
    {ExecFailure(c) : c \in ErrorCodes}
        \cup {ExecSuccess(o) : o \in RawOutputs \cup CsvOutputs}

\* ------------------------------------------------------------------- state

VARIABLES
    platform,    \* os.platform(), fixed for the run
    args,        \* process.argv.slice(2)
    pc,          \* where main is suspended: "start", "awaitKillPid" (l.95),
                 \* "awaitFind" (l.101), "awaitKill" (l.110), "returned",
                 \* "threw", "exited"
    i,           \* 1-based position of `arg` of the for-of loop over args
    pids,        \* `pids` of the current iteration
    j,           \* 1-based position of `pid` of the for-of loop over pids
    pending,     \* external commands started by exec and not yet completed
    exitCode,    \* process.exitCode, -1 while it is undefined
    exitStatus,  \* the status the process ended with, -1 while it runs
    diag,        \* the lines written to the console, in order
    trace,       \* history: every call of and return from
                 \* findPidByProcessName and killProcess made by main
    dpc,         \* where the demo's async function is suspended
    dpids,       \* `pids` of the demo
    dj,          \* position of `pid` of the demo's for-of loop
    dpending,    \* external commands the demo started and has not seen end
    ddiag,       \* the demo's console lines
    dtrace,      \* history of the demo's calls and returns
    rExec,       \* an outcome of the listing command
    rResult      \* how findPidByProcessName settled on rExec

mvars == << args, pc, i, pids, j, pending, exitCode, exitStatus, diag, trace >>
dvars == << dpc, dpids, dj, dpending, ddiag, dtrace >>
rvars == << rExec, rResult >>
vars == << platform, mvars, dvars, rvars >>

\* ---------------------------------------------------------------- commands

\* the command line findPidByProcessName builds
ListCommand(plat, name) ==
    [program |-> IF plat = "win32" THEN "tasklist" ELSE "pgrep",
     name |-> name, pid |-> 0]

\* the command line killProcess builds
KillCommand(plat, pid) ==
    [program |-> IF plat = "win32" THEN "taskkill" ELSE "kill",
     name |-> <<>>, pid |-> pid]

\* history records (tok is the position of the argument being processed)
CallResolve(k, name) ==
    [ev |-> "call", op |-> "resolve", tok |-> k, name |-> name, pid |-> 0,
     ok |-> TRUE, pids |-> <<>>]
ReturnResolve(k, name, res) ==
    [ev |-> "return", op |-> "resolve", tok |-> k, name |-> name, pid |-> 0,
     ok |-> (res.settled = "resolve"), pids |-> res.pids]
CallTerminate(k, pid) ==
    [ev |-> "call", op |-> "terminate", tok |-> k, name |-> <<>>, pid |-> pid,
     ok |-> TRUE, pids |-> <<>>]
ReturnTerminate(k, pid, ok) ==
    [ev |-> "return", op |-> "terminate", tok |-> k, name |-> <<>>,
     pid |-> pid, ok |-> ok, pids |-> <<>>]

\* a console line: the stream it goes to, which message, and what it names
Line(stream, msg, k, name, pid, ps) ==
    [stream |-> stream, msg |-> msg, tok |-> k, name |-> name, pid |-> pid,
     pids |-> ps]

\* ------------------------------------------------------------ driver inputs

Tokens ==
    { <<>>, <<"0">>, <<"0", "0", "7">>, <<"4", "2">>, <<"a">>, <<"7", "a">> }

ArgLists == UNION {[1..n -> Tokens] : n \in 0..MaxArgs}

\* outcomes of the termination command
KillOutcomes == {ExecSuccess(<<>>), ExecFailure(1)}

\* outcomes of the listing command the driver is run against: failures, and
\* pgrep-style and tasklist-style listings of no, one and two processes
\* (two different ones, the same one twice, and one whose identifier is 0)
ListOutcomes ==
    {ExecFailure(1), ExecFailure(2)}
    \cup {ExecSuccess(o) : o \in
            { <<>>,
              <<"7", "\n", "4", "2", "\n">>,
              <<"7", "\n", "7", "\n">>,
              <<"0", "\n">>,
              CsvOutput(<< <<"I", ":">> >>),
              CsvOutput(<< CsvHeader, CsvData(<<"7">>), CsvData(<<"4", "2">>) >>),
              CsvOutput(<< CsvHeader, CsvData(<<"7">>), CsvData(<<"7">>) >>),
              CsvOutput(<< CsvHeader, CsvData(<<"0">>) >>) }}

\* ------------------------------------------------- the CLI driver: main()

\* The top of the for-of loop over args at position k, run to the next await
\* (or to the end of main): rest are the commands still outstanding, d and t
\* the console lines and the history so far.
EnterToken(k, rest, d, t) ==
    /\ i' = k
    /\ pids' = <<>>
    /\ j' = 0
    /\ UNCHANGED << args, exitCode, exitStatus >>
    /\ IF k > Len(args)
       THEN /\ pc' = "returned"
            /\ pending' = rest
            /\ diag' = d
            /\ trace' = t
       ELSE IF IsNumericToken(args[k])
       THEN LET pid == NumberOf(args[k])
            IN  /\ pc' = "awaitKillPid"
                /\ pending' = Append(rest, KillCommand(platform, pid))
                /\ diag' = Append(d, Line("out", "terminating", k, <<>>, pid, <<>>))
                /\ trace' = Append(t, CallTerminate(k, pid))
       ELSE /\ pc' = "awaitFind"
            /\ pending' = Append(rest, ListCommand(platform, args[k]))
            /\ diag' = d
            /\ trace' = Append(t, CallResolve(k, args[k]))

\* variant: main without the check for an empty argument list
MainStartNoUsageCheck ==
    /\ pc = "start"
    /\ EnterToken(1, pending, diag, trace)

\* main is called: the usage check, then the first iteration
MainStart ==
    /\ pc = "start"
    /\ IF Len(args) = 0
       THEN /\ diag' = Append(diag, Line("err", "usage", 0, <<>>, 0, <<>>))
            /\ exitCode' = 2
            /\ pc' = "returned"
            /\ UNCHANGED << args, i, pids, j, pending, exitStatus, trace >>
       ELSE EnterToken(1, pending, diag, trace)

\* variant: the numeric branch outside any try, so that a failed
\* termination rejects main's promise
KillPidDoneUncaught(r) ==
    /\ pc = "awaitKillPid"
    /\ pending # <<>>
    /\ LET pid == Head(pending).pid
           ok  == KillCallback(r)
           t   == Append(trace, ReturnTerminate(i, pid, ok))
       IN  IF ok
           THEN EnterToken(i + 1, Tail(pending),
                    Append(diag, Line("out", "killed", i, <<>>, pid, <<>>)), t)
           ELSE /\ pc' = "threw"
                /\ pending' = Tail(pending)
                /\ trace' = t
                /\ UNCHANGED << args, i, pids, j, exitCode, exitStatus, diag >>

\* `await killProcess(pid)` of the numeric branch completes with r
KillPidDone(r) ==
    /\ pc = "awaitKillPid"
    /\ pending # <<>>
    /\ LET pid == Head(pending).pid
           ok  == KillCallback(r)
           t   == Append(trace, ReturnTerminate(i, pid, ok))
       IN  IF ok
           THEN EnterToken(i + 1, Tail(pending),
                    Append(diag, Line("out", "killed", i, <<>>, pid, <<>>)), t)
           ELSE EnterToken(i + 1, Tail(pending),
                    Append(diag, Line("err", "argError", i, args[i], 0, <<>>)), t)

\* variant: an empty result is thrown as an error
FindDoneEmptyThrows(r) ==
    /\ pc = "awaitFind"
    /\ pending # <<>>
    /\ LET res == FindCallback(platform, r)
           t   == Append(trace, ReturnResolve(i, args[i], res))
       IN  IF res.settled = "reject" \/ Len(res.pids) = 0
           THEN EnterToken(i + 1, Tail(pending),
                    Append(diag, Line("err", "argError", i, args[i], 0, <<>>)), t)
           ELSE /\ pids' = res.pids
                /\ j' = 1
                /\ pc' = "awaitKill"
                /\ pending' = Append(Tail(pending),
                                     KillCommand(platform, res.pids[1]))
                /\ diag' = Append(diag,
                                  Line("out", "found", i, args[i], 0, res.pids))
                /\ trace' = Append(t, CallTerminate(i, res.pids[1]))
                /\ UNCHANGED << args, i, exitCode, exitStatus >>

\* variant: the resolution outside any try, so that a rejection rejects
\* main's promise
FindDoneUncaught(r) ==
    /\ pc = "awaitFind"
    /\ pending # <<>>
    /\ LET res == FindCallback(platform, r)
           t   == Append(trace, ReturnResolve(i, args[i], res))
       IN  IF res.settled = "reject"
           THEN /\ pc' = "threw"
                /\ pending' = Tail(pending)
                /\ trace' = t
                /\ UNCHANGED << args, i, pids, j, exitCode, exitStatus, diag >>
           ELSE IF Len(res.pids) = 0
           THEN EnterToken(i + 1, Tail(pending),
                    Append(diag, Line("err", "notFound", i, args[i], 0, <<>>)), t)
           ELSE /\ pids' = res.pids
                /\ j' = 1
                /\ pc' = "awaitKill"
                /\ pending' = Append(Tail(pending),
                                     KillCommand(platform, res.pids[1]))
                /\ diag' = Append(diag,
                                  Line("out", "found", i, args[i], 0, res.pids))
                /\ trace' = Append(t, CallTerminate(i, res.pids[1]))
                /\ UNCHANGED << args, i, exitCode, exitStatus >>

\* `await findPidByProcessName(arg)` completes with r
FindDone(r) ==
    /\ pc = "awaitFind"
    /\ pending # <<>>
    /\ LET res == FindCallback(platform, r)
           t   == Append(trace, ReturnResolve(i, args[i], res))
       IN  IF res.settled = "reject"
           THEN EnterToken(i + 1, Tail(pending),
                    Append(diag, Line("err", "argError", i, args[i], 0, <<>>)), t)
           ELSE IF Len(res.pids) = 0
           THEN EnterToken(i + 1, Tail(pending),
                    Append(diag, Line("err", "notFound", i, args[i], 0, <<>>)), t)
           ELSE /\ pids' = res.pids
                /\ j' = 1
                /\ pc' = "awaitKill"
                /\ pending' = Append(Tail(pending),
                                     KillCommand(platform, res.pids[1]))
                /\ diag' = Append(diag,
                                  Line("out", "found", i, args[i], 0, res.pids))
                /\ trace' = Append(t, CallTerminate(i, res.pids[1]))
                /\ UNCHANGED << args, i, exitCode, exitStatus >>

\* variant: the loop over pids without its own try, so that a failed
\* termination leaves the loop for the catch of the iteration
KillDoneFailureLeavesLoop(r) ==
    /\ pc = "awaitKill"
    /\ pending # <<>>
    /\ LET pid == pids[j]
           ok  == KillCallback(r)
           t   == Append(trace, ReturnTerminate(i, pid, ok))
           d   == Append(diag, Line("out", "killed", i, <<>>, pid, <<>>))
       IN  IF ~ok
           THEN EnterToken(i + 1, Tail(pending),
                    Append(diag, Line("err", "argError", i, args[i], 0, <<>>)), t)
           ELSE IF j < Len(pids)
           THEN /\ j' = j + 1
                /\ pending' = Append(Tail(pending),
                                     KillCommand(platform, pids[j + 1]))
                /\ diag' = d
                /\ trace' = Append(t, CallTerminate(i, pids[j + 1]))
                /\ UNCHANGED << args, pc, i, pids, exitCode, exitStatus >>
           ELSE EnterToken(i + 1, Tail(pending), d, t)

\* variant: the loop over pids passing over an identifier equal to the one
\* just handled
KillDoneSkipsRepeated(r) ==
    /\ pc = "awaitKill"
    /\ pending # <<>>
    /\ LET pid == pids[j]
           ok  == KillCallback(r)
           t   == Append(trace, ReturnTerminate(i, pid, ok))
           d   == Append(diag,
                         IF ok THEN Line("out", "killed", i, <<>>, pid, <<>>)
                         ELSE Line("err", "cannotKill", i, <<>>, pid, <<>>))
           more == {n \in (j + 1)..Len(pids) : pids[n] # pid}
       IN  IF more # {}
           THEN LET n == CHOOSE m \in more : \A o \in more : m <= o
                IN  /\ j' = n
                    /\ pending' = Append(Tail(pending),
                                         KillCommand(platform, pids[n]))
                    /\ diag' = d
                    /\ trace' = Append(t, CallTerminate(i, pids[n]))
                    /\ UNCHANGED << args, pc, i, pids, exitCode, exitStatus >>
           ELSE EnterToken(i + 1, Tail(pending), d, t)

\* `await killProcess(pid)` of the loop over pids completes with r
KillDone(r) ==
    /\ pc = "awaitKill"
    /\ pending # <<>>
    /\ LET pid == pids[j]
           ok  == KillCallback(r)
           t   == Append(trace, ReturnTerminate(i, pid, ok))
           d   == Append(diag,
                         IF ok THEN Line("out", "killed", i, <<>>, pid, <<>>)
                         ELSE Line("err", "cannotKill", i, <<>>, pid, <<>>))
       IN  IF j < Len(pids)
           THEN /\ j' = j + 1
                /\ pending' = Append(Tail(pending),
                                     KillCommand(platform, pids[j + 1]))
                /\ diag' = d
                /\ trace' = Append(t, CallTerminate(i, pids[j + 1]))
                /\ UNCHANGED << args, pc, i, pids, exitCode, exitStatus >>
           ELSE EnterToken(i + 1, Tail(pending), d, t)

\* Nothing is left to run: the process ends with process.exitCode (0 when it
\* was never set); had main's promise rejected, the handler ends it with 1.
Exit ==
    /\ pc \in {"returned", "threw"}
    /\ pending = <<>>
    /\ pc' = "exited"
    /\ IF pc = "threw"
       THEN /\ exitStatus' = 1
            /\ diag' = Append(diag, Line("err", "fatal", 0, <<>>, 0, <<>>))
       ELSE /\ exitStatus' = (IF exitCode = -1 THEN 0 ELSE exitCode)
            /\ diag' = diag
    /\ UNCHANGED << args, i, pids, j, pending, exitCode, trace >>

MainInit ==
    /\ pc = "start"
    /\ i = 0
    /\ pids = <<>>
    /\ j = 0
    /\ pending = <<>>
    /\ exitCode = -1
    /\ exitStatus = -1
    /\ diag = <<>>
    /\ trace = <<>>

DemoIdle ==
    /\ dpc = "idle"
    /\ dpids = <<>>
    /\ dj = 0
    /\ dpending = <<>>
    /\ ddiag = <<>>
    /\ dtrace = <<>>

ResolverIdle ==
    /\ rExec = ExecSuccess(<<>>)
    /\ rResult = Unsettled

Init ==
    /\ platform \in Platforms
    /\ args \in ArgLists
    /\ MainInit
    /\ DemoIdle
    /\ ResolverIdle

Next ==
    \/ MainStart /\ UNCHANGED << platform, dvars, rvars >>
    \/ \E r \in KillOutcomes : KillPidDone(r) /\ UNCHANGED << platform, dvars, rvars >>
    \/ \E r \in ListOutcomes : FindDone(r) /\ UNCHANGED << platform, dvars, rvars >>
    \/ \E r \in KillOutcomes : KillDone(r) /\ UNCHANGED << platform, dvars, rvars >>
    \/ Exit /\ UNCHANGED << platform, dvars, rvars >>

Spec == Init /\ [][Next]_vars

\* ------------------------------------------- the demo: src/bin/killer.ts

\* const processName = "Wechat.exe"
DemoName == << "W", "e", "c", "h", "a", "t", ".", "e", "x", "e" >>

\* the async function is called: it runs to `await findPidByProcessName`
DemoStart ==
    /\ dpc = "start"
    /\ dpc' = "awaitFind"
    /\ dpending' = Append(dpending, ListCommand(platform, DemoName))
    /\ dtrace' = Append(dtrace, CallResolve(1, DemoName))
    /\ UNCHANGED << dpids, dj, ddiag >>

\* `await findPidByProcessName(processName)` completes with r
DemoFindDone(r) ==
    /\ dpc = "awaitFind"
    /\ dpending # <<>>
    /\ LET res == FindCallback(platform, r)
           t   == Append(dtrace, ReturnResolve(1, DemoName, res))
       IN  IF res.settled = "reject"
           THEN /\ dpc' = "done"
                /\ dpending' = Tail(dpending)
                /\ ddiag' = Append(ddiag, Line("err", "fatal", 1, <<>>, 0, <<>>))
                /\ dtrace' = t
                /\ UNCHANGED << dpids, dj >>
           ELSE IF Len(res.pids) = 0
           THEN /\ dpc' = "done"
                /\ dpending' = Tail(dpending)
                /\ ddiag' = Append(ddiag,
                                   Line("out", "notFound", 1, DemoName, 0, <<>>))
                /\ dtrace' = t
                /\ UNCHANGED << dpids, dj >>
           ELSE /\ dpc' = "awaitKill"
                /\ dpids' = res.pids
                /\ dj' = 1
                /\ dpending' = Append(Tail(dpending),
                                      KillCommand(platform, res.pids[1]))
                /\ ddiag' = Append(ddiag,
                                   Line("out", "found", 1, DemoName, 0, res.pids))
                /\ dtrace' = Append(t, CallTerminate(1, res.pids[1]))

\* `await killProcess(pid)` completes with r: a failure leaves the loop for
\* the catch around the whole body
DemoKillDone(r) ==
    /\ dpc = "awaitKill"
    /\ dpending # <<>>
    /\ LET pid == dpids[dj]
           ok  == KillCallback(r)
           t   == Append(dtrace, ReturnTerminate(1, pid, ok))
       IN  IF ~ok
           THEN /\ dpc' = "done"
                /\ dpending' = Tail(dpending)
                /\ ddiag' = Append(ddiag, Line("err", "fatal", 1, <<>>, 0, <<>>))
                /\ dtrace' = t
                /\ UNCHANGED << dpids, dj >>
           ELSE IF dj < Len(dpids)
           THEN /\ dj' = dj + 1
                /\ dpending' = Append(Tail(dpending),
                                      KillCommand(platform, dpids[dj + 1]))
                /\ ddiag' = Append(ddiag,
                                   Line("out", "killed", 1, <<>>, pid, <<>>))
                /\ dtrace' = Append(t, CallTerminate(1, dpids[dj + 1]))
                /\ UNCHANGED << dpc, dpids >>
           ELSE /\ dpc' = "done"
                /\ dpending' = Tail(dpending)
                /\ ddiag' = Append(ddiag,
                                   Line("out", "killed", 1, <<>>, pid, <<>>))
                /\ dtrace' = t
                /\ UNCHANGED << dpids, dj >>

\* The demo and the CLI driver side by side on the demo's token: the n-th
\* external command of one program ends as the n-th of the other does.
DemoInit ==
    /\ platform \in Platforms
    /\ args = << DemoName >>
    /\ MainInit
    /\ dpc = "start"
    /\ dpids = <<>>
    /\ dj = 0
    /\ dpending = <<>>
    /\ ddiag = <<>>
    /\ dtrace = <<>>
    /\ ResolverIdle

\* both programs wait for their n-th command
InStep == Len(trace) = Len(dtrace) /\ dpc # "done"

DemoNext ==
    \/ DemoStart /\ UNCHANGED << platform, mvars, rvars >>
    \/ MainStart /\ UNCHANGED << platform, dvars, rvars >>
    \/ \E r \in ExecInputs :
          InStep /\ FindDone(r) /\ DemoFindDone(r) /\ UNCHANGED << platform, rvars >>
    \/ \E r \in KillOutcomes :
          InStep /\ KillDone(r) /\ DemoKillDone(r) /\ UNCHANGED << platform, rvars >>
    \/ \E r \in KillOutcomes :
          dpc = "done" /\ KillDone(r) /\ UNCHANGED << platform, dvars, rvars >>
    \/ Exit /\ UNCHANGED << platform, dvars, rvars >>

DemoSpec == DemoInit /\ [][DemoNext]_vars

\* ------------------------------ the resolver alone, on every listing outcome

ResolverInit ==
    /\ platform \in Platforms
    /\ args = <<>>
    /\ MainInit
    /\ DemoIdle
    /\ rExec \in ExecInputs
    /\ rResult = Unsettled

\* exec calls the callback of findPidByProcessName with rExec
ResolveApply ==
    /\ rResult.settled = "pending"
    /\ rResult' = FindCallback(platform, rExec)
    /\ UNCHANGED << platform, mvars, dvars, rExec >>

ResolverNext == ResolveApply

ResolverSpec == ResolverInit /\ [][ResolverNext]_vars

\* ------------------------------------------------------ reading a history

\* a token made only of one or more decimal digits
DigitsOnly(arg) == arg \in Seq(Digits) /\ arg # <<>>

\* the events of history t that belong to argument k
EventsOf(t, k) == SelectSeq(t, LAMBDA e : e.tok = k)

\* the identifiers passed to terminate for argument k, in call order
TerminatedFor(t, k) ==
    LET c == SelectSeq(t, LAMBDA e :
                 e.tok = k /\ e.ev = "call" /\ e.op = "terminate")
    IN  [n \in 1..Len(c) |-> c[n].pid]

\* the calls of resolve for argument k
ResolveCallsFor(t, k) ==
    SelectSeq(t, LAMBDA e : e.tok = k /\ e.ev = "call" /\ e.op = "resolve")

\* the console lines about argument k
LinesOf(d, k) == SelectSeq(d, LAMBDA l : l.tok = k)

\* main has begun the iteration for argument k
Started(k) == pc # "start" /\ k <= i

\* main has left the iteration for argument k
Finished(k) == pc # "start" /\ k < i

\* main has returned or the process has ended
Over == pc \in {"returned", "exited"}

\* after the event at position n of the history, main went on to the next
\* argument (or returned when there is none)
WentOnAfter(n) ==
    LET k == trace[n].tok
    IN  IF k < Len(args)
        THEN /\ Len(trace) > n
             /\ trace[n + 1].ev = "call"
             /\ trace[n + 1].tok = k + 1
        ELSE /\ Len(trace) = n
             /\ Over

\* ------------------------------------------------------------------ claims

C2_FailureDoesNotStopLaterWork ==
    /\ \A n \in 1..Len(trace) :
          LET e    == trace[n]
              k    == e.tok
              done == Len(SelectSeq(SubSeq(trace, 1, n), LAMBDA x :
                          x.tok = k /\ x.ev = "return" /\ x.op = "terminate"))
              rets == SelectSeq(trace, LAMBDA x :
                          x.tok = k /\ x.ev = "return" /\ x.op = "resolve")
              ids  == IF rets = <<>> THEN << e.pid >> ELSE rets[1].pids
          IN  (e.ev = "return" /\ e.op = "terminate" /\ ~e.ok) =>
                 IF done < Len(ids)
                 THEN /\ Len(trace) > n
                      /\ trace[n + 1] = CallTerminate(k, ids[done + 1])
                 ELSE WentOnAfter(n)
    /\ Over => \A k \in 1..Len(args) :
                  \E n \in 1..Len(trace) : trace[n].tok = k /\ trace[n].ev = "call"

\* C2 witness: the first of two resolved identifiers could not be terminated,
\* the second was still attempted, and so was the numeric argument after it
C2_Witness ==
    /\ pc = "exited"
    /\ Len(args) = 2
    /\ DigitsOnly(args[2])
    /\ Len(trace) >= 8
    /\ trace[2].op = "resolve" /\ trace[2].pids = << 7, 42 >>
    /\ trace[4] = ReturnTerminate(1, 7, FALSE)
    /\ trace[5] = CallTerminate(1, 42)
    /\ trace[7].tok = 2 /\ trace[7].op = "terminate"

\* C3: with no arguments the program prints the usage line, ends with
\* status 2 and calls neither resolve nor terminate.
C3_NoArgsIsUsageError ==
    (Len(args) = 0 /\ pc # "start") =>
        /\ diag = << Line("err", "usage", 0, <<>>, 0, <<>>) >>
        /\ trace = <<>>
        /\ pending = <<>>
        /\ pc \in {"returned", "exited"}
        /\ (pc = "exited" => exitStatus = 2)

\* C3 witness: the process has ended on an empty argument list
C3_Witness == Len(args) = 0 /\ pc = "exited" /\ exitStatus = 2

\* every argument has had its call, main ran off the end of the list and the
\* process ended with status 0
EndedWithZero ==
    /\ pc = "exited"
    /\ exitStatus = 0
    /\ i = Len(args) + 1
    /\ \A k \in 1..Len(args) :
          \E n \in 1..Len(trace) : trace[n].tok = k /\ trace[n].ev = "call"

\* C4: with at least one argument, and every external command completing,
\* the program eventually ends with status 0 after every argument has been
\* processed, however the commands ended.
C4_EventuallyExitsZero == (Len(args) > 0) ~> EndedWithZero

\* C4 witness: the process ended with status 0 although a resolution was
\* rejected and a termination failed
C4_Witness ==
    /\ EndedWithZero
    /\ \E n \in 1..Len(trace) :
          trace[n].ev = "return" /\ trace[n].op = "resolve" /\ ~trace[n].ok
    /\ \E n \in 1..Len(trace) :
          trace[n].ev = "return" /\ trace[n].op = "terminate" /\ ~trace[n].ok

\* C5: when resolve returns an empty sequence for a name argument, the only
\* console line about that argument is the "not found" warning, terminate is
\* never called for it, nothing is thrown, and main goes on to the next
\* argument.
C5_EmptyResolutionIsNotFound ==
    \A n \in 1..Len(trace) :
        LET e == trace[n]
        IN  (e.ev = "return" /\ e.op = "resolve" /\ e.ok /\ e.pids = <<>>) =>
               /\ LinesOf(diag, e.tok) =
                     << Line("err", "notFound", e.tok, args[e.tok], 0, <<>>) >>
               /\ TerminatedFor(trace, e.tok) = <<>>
               /\ pc # "threw"
               /\ WentOnAfter(n)

\* C5 witness: the first of two arguments resolved to nothing and the run
\* went on to the second and ended
C5_Witness ==
    /\ pc = "exited"
    /\ Len(args) = 2
    /\ Len(trace) >= 3
    /\ trace[2].op = "resolve" /\ trace[2].ev = "return"
    /\ trace[2].ok /\ trace[2].pids = <<>>
    /\ trace[3].tok = 2

\* C6: resolve settles by the outcome of the listing command: off Windows a
\* failure with exit code 1 is a successful empty sequence; every other
\* failure, and every failure on Windows, is a rejection carrying that
\* failure; a successful execution is never a rejection.
C6_ResolveOutcomeMapping ==
    (rResult.settled # "pending") =>
        IF rExec.failed
        THEN IF platform # "win32" /\ rExec.code = 1
             THEN rResult = Resolved(<<>>)
             ELSE rResult = Rejected(rExec.code)
        ELSE rResult.settled = "resolve"

\* C6 witness: on Windows a listing failure with exit code 1 was rejected
C6_Witness ==
    /\ platform = "win32"
    /\ rExec = ExecFailure(1)
    /\ rResult = Rejected(1)

\* C7: arguments are processed in command-line order; for a name argument
\* the first call is the one call of resolve, and the calls of terminate are
\* the identifiers resolve returned, once each, in the order returned; every
\* call returns before the next command starts, so at most one external
\* command is outstanding.
C7_SequentialInOrder ==
    /\ Len(pending) <= 1
    /\ (Len(pending) = 1) <=> (Len(trace) % 2 = 1)
    /\ \A n \in 1..Len(trace) :
          /\ (n % 2 = 1) => trace[n].ev = "call"
          /\ (n % 2 = 0) =>
                /\ trace[n].ev = "return"
                /\ trace[n].op = trace[n - 1].op
                /\ trace[n].tok = trace[n - 1].tok
                /\ trace[n].pid = trace[n - 1].pid
          /\ (n > 1) => trace[n].tok \in {trace[n - 1].tok, trace[n - 1].tok + 1}
          /\ (n = 1) => trace[n].tok = 1
    /\ \A k \in 1..Len(args) :
          (~DigitsOnly(args[k]) /\ Started(k)) =>
             LET ev   == EventsOf(trace, k)
                 rets == SelectSeq(ev, LAMBDA x :
                             x.ev = "return" /\ x.op = "resolve")
                 ids  == IF rets = <<>> THEN <<>> ELSE rets[1].pids
                 done == TerminatedFor(trace, k)
             IN  /\ ev # <<>>
                 /\ ev[1] = CallResolve(k, args[k])
                 /\ Len(ResolveCallsFor(trace, k)) = 1
                 /\ Len(done) <= Len(ids)
                 /\ done = SubSeq(ids, 1, Len(done))
                 /\ Finished(k) => (rets # <<>> /\ done = ids)

\* C7 witness: a name argument resolved to the same identifier twice, both
\* were terminated, and the next argument was processed after it
C7_Witness ==
    /\ pc = "exited"
    /\ Len(args) = 2
    /\ TerminatedFor(trace, 1) = << 7, 7 >>
    /\ ~DigitsOnly(args[2])
    /\ TerminatedFor(trace, 2) = << 7, 42 >>

\* C8: when resolve is rejected for a name argument, the only console line
\* about that argument is the error naming it, terminate is never called for
\* it, main goes on to the next argument, and the rejection never reaches
\* the top-level handler: the process does not end with status 1.
C8_RejectedResolutionIsContained ==
    /\ \A n \in 1..Len(trace) :
          LET e == trace[n]
          IN  (e.ev = "return" /\ e.op = "resolve" /\ ~e.ok) =>
                 /\ LinesOf(diag, e.tok) =
                       << Line("err", "argError", e.tok, args[e.tok], 0, <<>>) >>
                 /\ TerminatedFor(trace, e.tok) = <<>>
                 /\ pc # "threw"
                 /\ exitStatus # 1
                 /\ WentOnAfter(n)

\* C8 witness: resolution of the first of two arguments was rejected and the
\* run went on to the second and ended with status 0
C8_Witness ==
    /\ pc = "exited"
    /\ exitStatus = 0
    /\ Len(args) = 2
    /\ Len(trace) >= 3
    /\ trace[2].op = "resolve" /\ trace[2].ev = "return" /\ ~trace[2].ok
    /\ trace[3].tok = 2

\* the calls of a history, without the returns
CallsOf(t) == SelectSeq(t, LAMBDA e : e.ev = "call")

\* C9: on the demo's token, and with every command ending the same way for
\* both, the demo and the CLI driver make the same calls of resolve and
\* terminate, in the same order.
C9_DemoMakesTheDriversCalls ==
    (dpc = "done" /\ Over) => CallsOf(dtrace) = CallsOf(trace)

\* C10: every identifier passed to terminate is a positive integer.
C10_TerminatedPidsPositive ==
    \A n \in 1..Len(trace) :
        (trace[n].ev = "call" /\ trace[n].op = "terminate") => trace[n].pid >= 1

\* ------------------------------------------------------------------ fairness

\* every external command completes and every ready continuation runs
FairSpec == Init /\ [][Next]_vars /\ WF_vars(Next)

====
